---- MODULE Spec2Model ----
(***************************************************************************)
(* Model of MiniBancoFinal.py: the account classes Cuenta / CuentaAhorro / *)
(* CuentaCorriente, the global registry `cuentas`, and the handlers of     *)
(* BancaApp that open accounts, run operations and mirror them to SQLite.  *)
(*                                                                         *)
(* Balances and amounts are Python floats (IEEE-754 binary64).  They are   *)
(* modelled bit-exactly: a float is a sign, a 53-bit significand and a     *)
(* binary exponent, and every arithmetic step rounds to nearest, ties to   *)
(* even, as the hardware does.  Significands do not fit TLC's 32-bit       *)
(* integers, so naturals are little-endian sequences of 15-bit limbs.      *)
(***************************************************************************)
EXTENDS Integers, Sequences, FiniteSets, TLC

(***************************************************************************)
(* Arbitrary-size naturals: <<l1, l2, ...>> is l1 + l2*Base + ...          *)
(* The canonical form has no zero limb at the top; zero is << >>.          *)
(***************************************************************************)
Base == 2^15

RECURSIVE BNorm(_)
BNorm(a) ==
  IF a = <<>> THEN a
  ELSE IF a[Len(a)] = 0 THEN BNorm(SubSeq(a, 1, Len(a) - 1)) ELSE a

Limb(a, i) == IF i <= Len(a) THEN a[i] ELSE 0

BFromInt(n) == BNorm(<<n % Base, (n \div Base) % Base, n \div (Base * Base)>>)

RECURSIVE BToIntFrom(_, _)
BToIntFrom(a, i) == IF i > Len(a) THEN 0 ELSE a[i] + Base * BToIntFrom(a, i + 1)

BToInt(a) == BToIntFrom(a, 1)

RECURSIVE BAddFrom(_, _, _, _)
BAddFrom(a, b, i, c) ==
  IF i > Len(a) /\ i > Len(b)
  THEN (IF c = 0 THEN <<>> ELSE <<c>>)
  ELSE LET s == Limb(a, i) + Limb(b, i) + c
       IN  <<s % Base>> \o BAddFrom(a, b, i + 1, s \div Base)

BAdd(a, b) == BAddFrom(a, b, 1, 0)

RECURSIVE BSubFrom(_, _, _, _)
BSubFrom(a, b, i, br) ==
  IF i > Len(a) THEN <<>>
  ELSE LET d == a[i] - Limb(b, i) - br
       IN  IF d < 0 THEN <<d + Base>> \o BSubFrom(a, b, i + 1, 1)
                    ELSE <<d>> \o BSubFrom(a, b, i + 1, 0)

\* a - b for a >= b
BSub(a, b) == BNorm(BSubFrom(a, b, 1, 0))

RECURSIVE BCmpFrom(_, _, _)
BCmpFrom(a, b, i) ==
  IF i = 0 THEN 0
  ELSE IF a[i] > b[i] THEN 1
  ELSE IF a[i] < b[i] THEN -1
  ELSE BCmpFrom(a, b, i - 1)

\* -1, 0, 1 as a < b, a = b, a > b (canonical arguments)
BCmp(a, b) ==
  IF Len(a) > Len(b) THEN 1
  ELSE IF Len(a) < Len(b) THEN -1
  ELSE BCmpFrom(a, b, Len(a))

RECURSIVE BMulSmallFrom(_, _, _, _)
BMulSmallFrom(a, k, i, c) ==
  IF i > Len(a)
  THEN (IF c = 0 THEN <<>> ELSE <<c>>)
  ELSE LET p == a[i] * k + c
       IN  <<p % Base>> \o BMulSmallFrom(a, k, i + 1, p \div Base)

\* a * k for 0 <= k <= Base
BMulSmall(a, k) == BNorm(BMulSmallFrom(a, k, 1, 0))

RECURSIVE BMulFrom(_, _, _)
BMulFrom(a, b, i) ==
  IF i > Len(b) THEN <<>>
  ELSE BAdd(BMulSmall(a, b[i]), <<0>> \o BMulFrom(a, b, i + 1))

BMul(a, b) == BNorm(BMulFrom(a, b, 1))

RECURSIVE BDivSmallFrom(_, _, _, _)
BDivSmallFrom(a, k, i, r) ==
  IF i = 0 THEN [q |-> <<>>, r |-> r]
  ELSE LET cur  == r * Base + a[i]
           rest == BDivSmallFrom(a, k, i - 1, cur % k)
       IN  [q |-> rest.q \o <<cur \div k>>, r |-> rest.r]

\* quotient and remainder of a by k, 1 <= k <= Base
BDivSmall(a, k) ==
  LET d == BDivSmallFrom(a, k, Len(a), 0) IN [q |-> BNorm(d.q), r |-> d.r]

Zeros(n) == [i \in 1..n |-> 0]

\* a * 2^n
BShl(a, n) ==
  IF a = <<>> THEN a ELSE Zeros(n \div 15) \o BMulSmall(a, 2^(n % 15))

\* floor(a / 2^n)
BShr(a, n) ==
  IF n \div 15 >= Len(a) THEN <<>>
  ELSE BDivSmall(SubSeq(a, n \div 15 + 1, Len(a)), 2^(n % 15)).q

\* number of significant bits
BBitLen(a) ==
  IF a = <<>> THEN 0
  ELSE 15 * (Len(a) - 1) + (CHOOSE k \in 1..15 : 2^(k-1) <= a[Len(a)] /\ a[Len(a)] < 2^k)

BOdd(a) == a # <<>> /\ a[1] % 2 = 1

(***************************************************************************)
(* Python float = IEEE-754 binary64.  A float is [s, m, e] with value      *)
(* (-1)^s * m * 2^e, where m is zero or has exactly Prec bits, or it is an  *)
(* infinity or NaN: these have the exponent above every finite one, as in  *)
(* the binary64 encoding, with m zero for an infinity.  The amount entries *)
(* accept the text \d*\.?\d{0,2} (vcmd_saldo) of any length, and float() of *)
(* more than 308 digits is inf; inf - inf and inf * 0 are NaN.  Between    *)
(* the finite amounts explored here no operation overflows or reaches a    *)
(* subnormal.  Every intermediate value is handed on as an operator        *)
(* argument.                                                               *)
(***************************************************************************)
Prec == 53

FPack(s, m, e) == [s |-> s, m |-> m, e |-> e]

FZero == FPack(0, <<>>, 0)

ExpEspecial == 2^10
FInf == FPack(0, <<>>, ExpEspecial)
FNaN == FPack(0, <<1>>, ExpEspecial)
IsInf(x) == x.e = ExpEspecial /\ x.m = <<>>
IsNaN(x) == x.e = ExpEspecial /\ x.m # <<>>

\* a significand that rounding carried to Prec + 1 bits is 2^Prec: halve it
FRenorm(s, q, e) ==
  IF BBitLen(q) > Prec THEN FPack(s, BShr(q, 1), e + 1) ELSE FPack(s, q, e)

\* q is the kept part; c compares the dropped part with one half of the last
\* kept bit; sticky says the exact value has yet more below the dropped part
FRoundDir(s, q, e, c, sticky) ==
  FRenorm(s, IF c > 0 \/ (c = 0 /\ (sticky \/ BOdd(q))) THEN BAdd(q, <<1>>) ELSE q, e)

FRoundAt(s, n, e, sticky, sh, q) ==
  FRoundDir(s, q, e + sh, BCmp(BSub(n, BShl(q, sh)), BShl(<<1>>, sh - 1)), sticky)

FRoundLen(s, n, e, sticky, L) ==
  IF L = 0 THEN FPack(s, <<>>, 0)
  ELSE IF L <= Prec THEN FPack(s, BShl(n, Prec - L), e - (Prec - L))
  ELSE FRoundAt(s, n, e, sticky, L - Prec, BShr(n, L - Prec))

\* (-1)^s * (n + sticky fraction) * 2^e rounded to nearest, ties to even.
\* sticky says that the exact value lies strictly between n * 2^e and
\* (n + 1) * 2^e; the callers that set it pass an n of more than Prec bits.
FRound(s, n, e, sticky) == FRoundLen(s, n, e, sticky, BBitLen(n))

FNeg(x) == [x EXCEPT !.s = 1 - x.s]

\* sx * nx * 2^e + sy * ny * 2^e, with c comparing nx and ny; x - x is +0.0
FAddAligned(sx, nx, sy, ny, e, c) ==
  FRound(IF sx = sy \/ c > 0 THEN sx ELSE IF c < 0 THEN sy ELSE 0,
         IF sx = sy THEN BAdd(nx, ny)
         ELSE IF c >= 0 THEN BSub(nx, ny) ELSE BSub(ny, nx),
         e, FALSE)

FAddMag(sx, nx, sy, ny, e) == FAddAligned(sx, nx, sy, ny, e, BCmp(nx, ny))

FAddAt(x, y, emin) ==
  FAddMag(x.s, BShl(x.m, x.e - emin), y.s, BShl(y.m, y.e - emin), emin)

\* x + y
FAdd(x, y) ==
  IF IsNaN(x) \/ IsNaN(y) THEN FNaN
  ELSE IF IsInf(x) THEN (IF IsInf(y) /\ x.s # y.s THEN FNaN ELSE x)
  ELSE IF IsInf(y) THEN y
  ELSE FAddAt(x, y, IF x.e < y.e THEN x.e ELSE y.e)

\* x - y
FSub(x, y) == FAdd(x, FNeg(y))

\* x * y
FMul(x, y) ==
  IF IsNaN(x) \/ IsNaN(y) THEN FNaN
  ELSE IF IsInf(x) \/ IsInf(y)
  THEN (IF x = FZero \/ x = FNeg(FZero) \/ y = FZero \/ y = FNeg(FZero) THEN FNaN
        ELSE FPack((x.s + y.s) % 2, <<>>, ExpEspecial))
  ELSE FRound((x.s + y.s) % 2, BMul(x.m, y.m), x.e + y.e, FALSE)

\* the quotient d = [q, r] of a division, scaled by 2^e, as a float
FRoundDiv(s, d, e) == FRound(s, d.q, e, d.r # 0)

\* x / k for an integer 1 <= k <= Base
FDivInt(x, k) == FRoundDiv(x.s, BDivSmall(BShl(x.m, 15), k), x.e - 15)

\* the float nearest to the decimal num / den (what a literal or float(str)
\* yields), for num >= 0 and 1 <= den <= Base
FromDec(num, den) == FRoundDiv(0, BDivSmall(BShl(BFromInt(num), 75), den), -75)

FSign(x) == IF x.m = <<>> /\ ~IsInf(x) THEN 0 ELSE IF x.s = 1 THEN -1 ELSE 1

\* |x| against |y| for x and y of the same sign, neither of them zero
\* unless both are
FCmpMag(x, y) ==
  IF IsInf(x) \/ IsInf(y)
  THEN (IF IsInf(x) /\ IsInf(y) THEN 0 ELSE IF IsInf(x) THEN 1 ELSE -1)
  ELSE IF x.m = <<>> \/ y.m = <<>>
  THEN (IF x.m = y.m THEN 0 ELSE IF x.m = <<>> THEN -1 ELSE 1)
  ELSE IF x.e # y.e THEN (IF x.e > y.e THEN 1 ELSE -1)
  ELSE BCmp(x.m, y.m)

\* -1, 0, 1 as x < y, x == y, x > y, for x and y other than NaN
FCmp(x, y) ==
  IF FSign(x) # FSign(y) THEN (IF FSign(x) > FSign(y) THEN 1 ELSE -1)
  ELSE FSign(x) * FCmpMag(x, y)

\* x < y, x <= y, x > y, x >= y: every comparison with NaN is false
FLt(x, y) == ~IsNaN(x) /\ ~IsNaN(y) /\ FCmp(x, y) < 0
FLe(x, y) == ~IsNaN(x) /\ ~IsNaN(y) /\ FCmp(x, y) <= 0
FGt(x, y) == ~IsNaN(x) /\ ~IsNaN(y) /\ FCmp(x, y) > 0
FGe(x, y) == ~IsNaN(x) /\ ~IsNaN(y) /\ FCmp(x, y) >= 0

Fmt2Dir(neg, q, c) ==
  [neg |-> neg, c |-> BToInt(q) + (IF c > 0 \/ (c = 0 /\ BOdd(q)) THEN 1 ELSE 0)]

Fmt2At(neg, n, sh, q) ==
  Fmt2Dir(neg, q, BCmp(BSub(n, BShl(q, sh)), BShl(<<1>>, sh - 1)))

Fmt2Frac(neg, n, sh) == Fmt2At(neg, n, sh, BShr(n, sh))

\* f"{x:.2f}": the exact value rounded to hundredths, ties to even, as
\* [neg, c] for the text of (-)c/100 with two decimals; c = -1 stands for
\* the text "nan" and c = -2 for "inf"
Fmt2(x) ==
  IF IsNaN(x) THEN [neg |-> FALSE, c |-> -1]
  ELSE IF IsInf(x) THEN [neg |-> x.s = 1, c |-> -2]
  ELSE IF x.e >= 0
  THEN [neg |-> x.s = 1, c |-> BToInt(BShl(BMulSmall(x.m, 100), x.e))]
  ELSE Fmt2Frac(x.s = 1, BMulSmall(x.m, 100), 0 - x.e)

\* float(s) for the text s of c hundredths, e.g. "12.34" for c = 1234
ParseMonto(c) == IF c < 0 THEN FNeg(FromDec(0 - c, 100)) ELSE FromDec(c, 100)

\* float(s) for an entry float() accepts: a decimal text of c hundredths, or
\* digits too many for a float, which float() turns into inf
Float(entrada) == IF entrada.k = "e" THEN FInf ELSE ParseMonto(entrada.c)

(***************************************************************************)
(* Bounds of the model.                                                    *)
(***************************************************************************)
\* history records kept in memory, all accounts together
MaxRegistros == 4

(***************************************************************************)
(* What the forms can hold.  A text entry is [k, c]: k = "" for an empty   *)
(* entry, "." for the text the entry accepts and float() rejects, "n" for   *)
(* the decimal text of c hundredths, "e" for a text of 400 digits.  The    *)
(* entries refuse every keystroke that leaves \d*\.?\d{0,2}, so no other   *)
(* text reaches the handlers.  An owner name is the sequence of its words. *)
(***************************************************************************)
Vacio == [k |-> "", c |-> 0]
Punto == [k |-> ".", c |-> 0]
Num(c) == [k |-> "n", c |-> c]
Enorme == [k |-> "e", c |-> 0]

Numeros == {"1000000001", "1000000002"}
AnaPerez == <<"Ana", "Perez">>
LuisRamos == <<"Luis", "Ramos">>

\* the filled forms "Abrir Nueva Cuenta" is submitted with:
\* <<numero, titular, saldo inicial, tipo>>
FormulariosValidos ==
  { <<"1000000001", LuisRamos, Num(15000), "Corriente">>,
    <<"1000000002", LuisRamos, Num(0), "Corriente">>,
    <<"1000000002", AnaPerez, Num(10), "Ahorro">> }
FormulariosInvalidos ==
  { <<"", AnaPerez, Num(10), "Ahorro">>,
    <<"1000000001", <<>>, Num(10), "Ahorro">>,
    <<"1000000001", AnaPerez, Vacio, "Ahorro">>,
    <<"1000000001", AnaPerez, Punto, "Ahorro">>,
    <<"123", AnaPerez, Num(10), "Ahorro">>,
    <<"1000000002", <<"Ana">>, Num(10), "Corriente">> }
Formularios == FormulariosValidos \cup FormulariosInvalidos

\* the seconds datetime.now() can show.  The program stores a fecha and never
\* reads one back, so the runs explored stay within one second; the methods
\* take the reading as an argument and are checked with readings that differ.
Segundos == {0}

\* what "Realizar Operacion" is submitted with
NumerosEntrada == Numeros \cup {""}
MontosPositivos == {20}
MontosEntrada ==
  {Vacio, Punto, Enorme, Num(0)} \cup {Num(c) : c \in MontosPositivos}

VARIABLES
  cuentas,   \* the global dict: numero -> account object
  db,        \* banco.db: [cuentas: numero -> row, historial: rows in rowid order]
  reloj      \* the second datetime.now() last returned

vars == <<cuentas, db, reloj>>

(***************************************************************************)
(* class Cuenta and its subclasses.  An object is a record; clase is its   *)
(* Python class.  A method is an operator from the object (and the clock   *)
(* value _registrar_transaccion reads) to [exc, c]: the exception raised   *)
(* ("" for none) and the object as the call leaves it.                     *)
(***************************************************************************)
NuevaCuenta(clase, numero, titular, saldo_inicial) ==
  [clase |-> clase, numero |-> numero, titular |-> titular,
   saldo |-> saldo_inicial, historial |-> <<>>]

\* f"+S/. {monto:.2f}" / f"-S/. {monto:.2f}"
MontoStr(signo, monto) == <<signo, Fmt2(monto)>>

\* mutant: the record replaces the list instead of joining it
RegistrarSobrescribe(c, fecha, tipo, monto_str) ==
  [c EXCEPT !.historial = <<<<fecha, tipo, monto_str>>>>]

RegistrarTransaccion(c, fecha, tipo, monto_str) ==
  [c EXCEPT !.historial = Append(@, <<fecha, tipo, monto_str>>)]

\* mutant: the check lets an amount of zero through
DepositarAceptaCero(c, monto, fecha) ==
  IF FLt(monto, FZero)
  THEN [exc |-> "monto a depositar no positivo", c |-> c]
  ELSE [exc |-> "",
        c   |-> RegistrarTransaccion([c EXCEPT !.saldo = FAdd(@, monto)],
                                     fecha, <<"Deposito">>, MontoStr("+", monto))]

Depositar(c, monto, fecha) ==
  IF FLe(monto, FZero)
  THEN [exc |-> "monto a depositar no positivo", c |-> c]
  ELSE [exc |-> "",
        c   |-> RegistrarTransaccion([c EXCEPT !.saldo = FAdd(@, monto)],
                                     fecha, <<"Deposito">>, MontoStr("+", monto))]

\* mutant: the balance is debited before it is checked
RetirarDebitaAntes(c, monto, fecha) ==
  IF FLe(monto, FZero)
  THEN [exc |-> "monto a retirar no positivo", c |-> c]
  ELSE IF FGt(monto, c.saldo)
  THEN [exc |-> "saldo insuficiente", c |-> [c EXCEPT !.saldo = FSub(@, monto)]]
  ELSE [exc |-> "",
        c   |-> RegistrarTransaccion([c EXCEPT !.saldo = FSub(@, monto)],
                                     fecha, <<"Retiro">>, MontoStr("-", monto))]

Retirar(c, monto, fecha) ==
  IF FLe(monto, FZero)
  THEN [exc |-> "monto a retirar no positivo", c |-> c]
  ELSE IF FGt(monto, c.saldo)
  THEN [exc |-> "saldo insuficiente", c |-> c]
  ELSE [exc |-> "",
        c   |-> RegistrarTransaccion([c EXCEPT !.saldo = FSub(@, monto)],
                                     fecha, <<"Retiro">>, MontoStr("-", monto))]

\* mutant: transferir leaves only the records of retirar and depositar
TransferirSinRegistro(o, d, monto, f, r, dp) ==
  IF dp.exc # "" THEN [exc |-> dp.exc, o |-> r.c, d |-> d]
  ELSE [exc |-> "", o |-> r.c, d |-> dp.c]

\* the end of transferir: dp is what destino.depositar(monto) returned
TransferirRegistrar(o, d, monto, f, r, dp) ==
  IF dp.exc # "" THEN [exc |-> dp.exc, o |-> r.c, d |-> d]
  ELSE [exc |-> "",
        o |-> RegistrarTransaccion(r.c, f[3], <<"Transferencia a", d.numero>>,
                                   MontoStr("-", monto)),
        d |-> RegistrarTransaccion(dp.c, f[4], <<"Transferencia de", o.numero>>,
                                   MontoStr("+", monto))]

\* mutant: the destination gets its record and not the money
TransferirSinAbono(o, d, monto, f, r) ==
  IF r.exc # "" THEN [exc |-> r.exc, o |-> o, d |-> d]
  ELSE TransferirRegistrar(o, d, monto, f, r, [exc |-> "", c |-> d])

\* transferir after its first line: r is what self.retirar(monto) returned
TransferirDepositar(o, d, monto, f, r) ==
  IF r.exc # "" THEN [exc |-> r.exc, o |-> o, d |-> d]
  ELSE TransferirRegistrar(o, d, monto, f, r, Depositar(d, monto, f[2]))

\* self.transferir(destino, monto); f is the four clock readings.
\* The result is [exc, o, d]: origin and destination as the call leaves them.
Transferir(o, d, monto, f) ==
  TransferirDepositar(o, d, monto, f, Retirar(o, monto, f[1]))

\* tasa_anual / 12 of each subclass
TasaMensualAhorro == FDivInt(FromDec(1, 100), 12)
TasaMensualCorriente == FDivInt(FromDec(5, 10000), 12)

\* self._saldo += interes_ganado, then the record of it
SumarInteres(c, fecha, tipo, interes_ganado) ==
  RegistrarTransaccion([c EXCEPT !.saldo = FAdd(@, interes_ganado)],
                       fecha, tipo, MontoStr("+", interes_ganado))

AplicarInteresAhorro(c, fecha) ==
  SumarInteres(c, fecha, <<"Interes (Ahorro)">>, FMul(c.saldo, TasaMensualAhorro))

AplicarInteresCorriente(c, fecha) ==
  SumarInteres(c, fecha, <<"Interes (Corriente)">>, FMul(c.saldo, TasaMensualCorriente))

\* mutant: the subclasses do not override the empty method of Cuenta
AplicarInteresBase(c, fecha) == c

\* cuenta.aplicar_interes(): dispatch on the class of the object
AplicarInteres(c, fecha) ==
  IF c.clase = "CuentaAhorro" THEN AplicarInteresAhorro(c, fecha)
  ELSE AplicarInteresCorriente(c, fecha)

(***************************************************************************)
(* banco.db.  Table cuentas is keyed by numero.  Table historial has an    *)
(* AUTOINCREMENT rowid that the program never reads: a new row gets a      *)
(* rowid above every earlier one and the unordered SELECT scans the table  *)
(* in rowid order, so the table is the sequence of its rows in that order. *)
(***************************************************************************)
DbVacia == [cuentas |-> <<>>, historial |-> <<>>]

TipoDe(c) == IF c.clase = "CuentaAhorro" THEN "Ahorro" ELSE "Corriente"

\* INSERT INTO cuentas; the primary key rejects a numero already stored,
\* and SQLite binds NaN as NULL, which saldo REAL NOT NULL rejects
AddNewAccountToDb(d, c) ==
  IF c.numero \in DOMAIN d.cuentas \/ IsNaN(c.saldo)
  THEN [exc |-> "IntegrityError", db |-> d]
  ELSE [exc |-> "",
        db  |-> [d EXCEPT !.cuentas =
                   [n \in DOMAIN d.cuentas \cup {c.numero} |->
                      IF n = c.numero
                      THEN [titular |-> c.titular, saldo |-> c.saldo, tipo |-> TipoDe(c)]
                      ELSE d.cuentas[n]]]]

FilaHistorial(numero, h) ==
  [numero_cuenta |-> numero, fecha |-> h[1], tipo_transaccion |-> h[2], monto_str |-> h[3]]

\* DELETE FROM historial WHERE numero_cuenta = ?
BorrarHistorial(filas, numero) ==
  LET NoEsDe(fila) == fila.numero_cuenta # numero
  IN  SelectSeq(filas, NoEsDe)

\* mutant: the sync writes the balance and leaves table historial alone
UpdateSoloSaldo(d, c) ==
  IF c.numero \in DOMAIN d.cuentas /\ IsNaN(c.saldo)
  THEN [exc |-> "IntegrityError", db |-> d]
  ELSE [exc |-> "",
        db  |-> [d EXCEPT !.cuentas =
                   [n \in DOMAIN d.cuentas |->
                      IF n = c.numero
                      THEN [d.cuentas[n] EXCEPT !.saldo = c.saldo]
                      ELSE d.cuentas[n]]]]

\* UPDATE saldo; DELETE the account's historial rows; INSERT the whole list.
\* The UPDATE of a stored row to NaN fails on saldo REAL NOT NULL and nothing
\* is written; with no row of that numero it changes nothing and goes on
\* (foreign keys are not enforced: no PRAGMA foreign_keys).
UpdateAccountInDb(d, c) ==
  IF c.numero \in DOMAIN d.cuentas /\ IsNaN(c.saldo)
  THEN [exc |-> "IntegrityError", db |-> d]
  ELSE [exc |-> "",
        db  |-> [cuentas   |-> [n \in DOMAIN d.cuentas |->
                                  IF n = c.numero
                                  THEN [d.cuentas[n] EXCEPT !.saldo = c.saldo]
                                  ELSE d.cuentas[n]],
                 historial |-> BorrarHistorial(d.historial, c.numero)
                               \o [i \in 1..Len(c.historial) |->
                                     FilaHistorial(c.numero, c.historial[i])]]]

\* SELECT fecha, tipo_transaccion, monto_str FROM historial WHERE numero_cuenta = ?
SelectHistorial(filas, numero) ==
  LET EsDe(fila) == fila.numero_cuenta = numero
  IN  SelectSeq(filas, EsDe)

FilaATupla(fila) == <<fila.fecha, fila.tipo_transaccion, fila.monto_str>>

\* cuenta.historial.append(h_row) for each row of the SELECT
CargarHistorial(cuenta, filas) ==
  [cuenta EXCEPT !.historial = @ \o [i \in 1..Len(filas) |-> FilaATupla(filas[i])]]

\* the object built from one row of table cuentas.  Every stored tipo is
\* "Ahorro" or "Corriente": AddNewAccountToDb writes no other.
CuentaDeFila(numero, fila) ==
  IF fila.tipo = "Ahorro"
  THEN NuevaCuenta("CuentaAhorro", numero, fila.titular, fila.saldo)
  ELSE NuevaCuenta("CuentaCorriente", numero, fila.titular, fila.saldo)

\* load_accounts_from_db() into the empty dict of a fresh process
LoadAccountsFromDb(d) ==
  [n \in DOMAIN d.cuentas |->
     CargarHistorial(CuentaDeFila(n, d.cuentas[n]), SelectHistorial(d.historial, n))]

(***************************************************************************)
(* BancaApp._crear_cuenta: the registry and the database the handler       *)
(* leaves and the message box it shows (<<title, text>>), from the         *)
(* registry and database it finds and the four entries.                    *)
(***************************************************************************)
\* cuentas[c.numero] = c
Poner(cs, c) ==
  [n \in DOMAIN cs \cup {c.numero} |-> IF n = c.numero THEN c ELSE cs[n]]

\* re.match(r"^\d{10}$", numero): the entry holds digits only
NumeroValido(numero) == Len(numero) = 10

\* a name and at least one surname
TitularValido(titular) == Len(titular) >= 2

ErrorCrear(cs, d, texto) ==
  [cuentas |-> cs, db |-> d, mensaje |-> <<"Error al Crear Cuenta", texto>>]

\* lines 355-360: the dict entry is set before the INSERT is tried
CrearCuentaGuardar(cs, d, cuenta, ins) ==
  IF ins.exc # ""
  THEN [cuentas |-> Poner(cs, cuenta), db |-> d,
        mensaje |-> <<"Error Inesperado", ins.exc>>]
  ELSE [cuentas |-> Poner(cs, cuenta), db |-> ins.db,
        mensaje |-> <<"Exito", "la cuenta ha sido creada">>]

CrearCuentaConstruir(cs, d, cuenta) ==
  CrearCuentaGuardar(cs, d, cuenta, AddNewAccountToDb(d, cuenta))

\* mutant: no check of the numero against the registry
CrearCuentaSinDuplicado(cs, d, numero, titular, saldo, tipo) ==
  IF ~NumeroValido(numero) THEN ErrorCrear(cs, d, "el numero debe tener 10 digitos")
  ELSE IF ~TitularValido(titular) THEN ErrorCrear(cs, d, "nombre y apellido validos")
  ELSE IF FLt(saldo, FZero)
  THEN ErrorCrear(cs, d, "el saldo inicial no puede ser negativo")
  ELSE CrearCuentaConstruir(cs, d,
         IF tipo = "Ahorro"
         THEN NuevaCuenta("CuentaAhorro", numero, titular, saldo)
         ELSE NuevaCuenta("CuentaCorriente", numero, titular, saldo))

\* lines 345-354: the checks after saldo = float(saldo_str)
CrearCuentaValidar(cs, d, numero, titular, saldo, tipo) ==
  IF ~NumeroValido(numero) THEN ErrorCrear(cs, d, "el numero debe tener 10 digitos")
  ELSE IF ~TitularValido(titular) THEN ErrorCrear(cs, d, "nombre y apellido validos")
  ELSE IF FLt(saldo, FZero)
  THEN ErrorCrear(cs, d, "el saldo inicial no puede ser negativo")
  ELSE IF numero \in DOMAIN cs THEN ErrorCrear(cs, d, "esta cuenta ya existe")
  ELSE CrearCuentaConstruir(cs, d,
         IF tipo = "Ahorro"
         THEN NuevaCuenta("CuentaAhorro", numero, titular, saldo)
         ELSE NuevaCuenta("CuentaCorriente", numero, titular, saldo))

CrearCuentaRes(cs, d, numero, titular, saldo_str, tipo) ==
  IF numero = "" THEN ErrorCrear(cs, d, "ingresa el numero de cuenta")
  ELSE IF titular = <<>> THEN ErrorCrear(cs, d, "ingresa el titular")
  ELSE IF saldo_str.k = "" THEN ErrorCrear(cs, d, "ingresa el saldo inicial")
  ELSE IF saldo_str.k = "."
  THEN ErrorCrear(cs, d, "could not convert string to float")
  ELSE CrearCuentaValidar(cs, d, numero, titular, Float(saldo_str), tipo)

(***************************************************************************)
(* BancaApp._realizar_operacion.  f holds the clock readings of the calls  *)
(* of _registrar_transaccion, r the last reading before the handler runs.  *)
(* The result gives the registry, the database and the message box, and    *)
(* leidas, the number of readings the handler made, and reloj, the last    *)
(* reading when it ends.                                                   *)
(***************************************************************************)
ErrorOperacion(cs, d, r, tipo_operacion, texto) ==
  [cuentas |-> cs, db |-> d, reloj |-> r, leidas |-> 0,
   mensaje |-> <<"Error en " \o tipo_operacion, texto>>]

\* upd is what update_account_in_db returned; when it raises, the object
\* stays changed and except Exception shows the error
UnaCuentaGuardada(cs, c, fecha, titulo, upd) ==
  [cuentas |-> Poner(cs, c), db |-> upd.db, reloj |-> fecha, leidas |-> 1,
   mensaje |-> IF upd.exc # "" THEN <<"Error Inesperado", upd.exc>>
               ELSE <<titulo, "">>]

\* one account changed and synced: lines 384-387, 391-394, 409-412
UnaCuenta(cs, d, c, fecha, titulo) ==
  UnaCuentaGuardada(cs, c, fecha, titulo, UpdateAccountInDb(d, c))

\* res is what depositar or retirar returned
TrasMetodo(cs, d, r, tipo_operacion, res, fecha, titulo) ==
  IF res.exc # "" THEN ErrorOperacion(cs, d, r, tipo_operacion, res.exc)
  ELSE UnaCuenta(cs, d, res.c, fecha, titulo)

\* upd is what the last call of update_account_in_db returned
TransferenciaGuardada(cs, tr, f, upd) ==
  [cuentas |-> Poner(Poner(cs, tr.o), tr.d), db |-> upd.db,
   reloj |-> f[4], leidas |-> 4,
   mensaje |-> IF upd.exc # "" THEN <<"Error Inesperado", upd.exc>>
               ELSE <<"Transferencia Exitosa", "">>]

\* lines 405-406: the destination is synced when the sync of the origin,
\* upd, has not raised
TransferenciaGuardarDestino(cs, tr, f, upd) ==
  IF upd.exc # "" THEN TransferenciaGuardada(cs, tr, f, upd)
  ELSE TransferenciaGuardada(cs, tr, f, UpdateAccountInDb(upd.db, tr.d))

\* tr is what transferir returned.  When it raises after retirar has
\* succeeded the origin object stays debited and nothing is synced.
TrasTransferir(cs, d, r, tipo_operacion, cuenta_origen, tr, f) ==
  IF tr.exc # ""
  THEN [cuentas |-> Poner(Poner(cs, tr.o), tr.d), db |-> d,
        reloj |-> IF tr.o = cuenta_origen THEN r ELSE f[1],
        leidas |-> IF tr.o = cuenta_origen THEN 0 ELSE 1,
        mensaje |-> <<"Error en " \o tipo_operacion, tr.exc>>]
  ELSE TransferenciaGuardarDestino(cs, tr, f, UpdateAccountInDb(d, tr.o))

OperacionDeposito(cs, d, r, tipo_operacion, numero, monto_str, f) ==
  IF monto_str.k = ""
  THEN ErrorOperacion(cs, d, r, tipo_operacion, "ingresa el monto a depositar")
  ELSE IF monto_str.k = "."
  THEN ErrorOperacion(cs, d, r, tipo_operacion, "could not convert string to float")
  ELSE TrasMetodo(cs, d, r, tipo_operacion,
                  Depositar(cs[numero], Float(monto_str), f[1]),
                  f[1], "Deposito Exitoso")

OperacionRetiro(cs, d, r, tipo_operacion, numero, monto_str, f) ==
  IF monto_str.k = ""
  THEN ErrorOperacion(cs, d, r, tipo_operacion, "ingresa el monto a retirar")
  ELSE IF monto_str.k = "."
  THEN ErrorOperacion(cs, d, r, tipo_operacion, "could not convert string to float")
  ELSE TrasMetodo(cs, d, r, tipo_operacion,
                  Retirar(cs[numero], Float(monto_str), f[1]),
                  f[1], "Retiro Exitoso")

OperacionTransferencia(cs, d, r, tipo_operacion, numero, monto_str, destino, f) ==
  IF destino = ""
  THEN ErrorOperacion(cs, d, r, tipo_operacion, "ingresa la cuenta de destino")
  ELSE IF monto_str.k = ""
  THEN ErrorOperacion(cs, d, r, tipo_operacion, "ingresa el monto a transferir")
  ELSE IF monto_str.k = "."
  THEN ErrorOperacion(cs, d, r, tipo_operacion, "could not convert string to float")
  ELSE IF destino \notin DOMAIN cs
  THEN ErrorOperacion(cs, d, r, tipo_operacion, "la cuenta de destino no fue encontrada")
  ELSE IF numero = destino
  THEN ErrorOperacion(cs, d, r, tipo_operacion, "no puedes transferir a la misma cuenta")
  ELSE TrasTransferir(cs, d, r, tipo_operacion, cs[numero],
                      Transferir(cs[numero], cs[destino], Float(monto_str), f), f)

OperacionInteres(cs, d, numero, f) ==
  UnaCuenta(cs, d, AplicarInteres(cs[numero], f[1]), f[1], "Interes Aplicado")

RealizarOperacionRes(cs, d, r, tipo_operacion, numero, monto_str, destino, f) ==
  IF numero = ""
  THEN ErrorOperacion(cs, d, r, tipo_operacion, "ingresa el numero de cuenta")
  ELSE IF numero \notin DOMAIN cs
  THEN ErrorOperacion(cs, d, r, tipo_operacion, "la cuenta no fue encontrada")
  ELSE IF tipo_operacion = "Deposito"
  THEN OperacionDeposito(cs, d, r, tipo_operacion, numero, monto_str, f)
  ELSE IF tipo_operacion = "Retiro"
  THEN OperacionRetiro(cs, d, r, tipo_operacion, numero, monto_str, f)
  ELSE IF tipo_operacion = "Transferencia"
  THEN OperacionTransferencia(cs, d, r, tipo_operacion, numero, monto_str, destino, f)
  ELSE OperacionInteres(cs, d, numero, f)

(***************************************************************************)
(* The state machine: one action per handler the user can trigger.         *)
(***************************************************************************)
RECURSIVE TotalRegistros(_, _)
TotalRegistros(cs, ns) ==
  IF ns = {} THEN 0
  ELSE LET n == CHOOSE x \in ns : TRUE
       IN  Len(cs[n].historial) + TotalRegistros(cs, ns \ {n})

\* what four successive calls of datetime.now() can return after reading r
Lecturas(r) ==
  {f \in [1..4 -> {t \in Segundos : t >= r}] : \A i \in 1..3 : f[i] <= f[i + 1]}

\* of the four only the first k are read: the others repeat the last one read
SoloLeidas(f, r, k) == \A i \in 1..4 : i > k => f[i] = (IF k = 0 THEN r ELSE f[k])

Init ==
  /\ cuentas = <<>>
  /\ db = DbVacia
  /\ reloj = 0

Guardar(res) ==
  /\ cuentas' = res.cuentas
  /\ db' = res.db

\* the button "Crear Cuenta"
CrearCuenta(numero, titular, saldo_str, tipo) ==
  /\ Guardar(CrearCuentaRes(cuentas, db, numero, titular, saldo_str, tipo))
  /\ UNCHANGED reloj

Terminar(res, f) ==
  /\ SoloLeidas(f, reloj, res.leidas)
  /\ TotalRegistros(res.cuentas, DOMAIN res.cuentas) <= MaxRegistros
  /\ Guardar(res)
  /\ reloj' = res.reloj

\* the button "Ejecutar"; the clock may advance between the handler's readings
RealizarOperacion(tipo_operacion, numero, monto_str, destino) ==
  /\ TotalRegistros(cuentas, DOMAIN cuentas) < MaxRegistros
  /\ \E f \in Lecturas(reloj) :
       Terminar(RealizarOperacionRes(cuentas, db, reloj, tipo_operacion, numero,
                                     monto_str, destino, f), f)

AbrirCuenta ==
  \E form \in Formularios : CrearCuenta(form[1], form[2], form[3], form[4])

OpDeposito ==
  \E numero \in NumerosEntrada, monto_str \in MontosEntrada :
    RealizarOperacion("Deposito", numero, monto_str, "")

OpRetiro ==
  \E numero \in NumerosEntrada, monto_str \in MontosEntrada :
    RealizarOperacion("Retiro", numero, monto_str, "")

OpTransferencia ==
  \E numero \in NumerosEntrada, destino \in NumerosEntrada,
     monto_str \in MontosEntrada :
    RealizarOperacion("Transferencia", numero, monto_str, destino)

OpInteres ==
  \E numero \in NumerosEntrada :
    RealizarOperacion("Aplicar Interes", numero, Vacio, "")

\* the process ends and starts again: BancaApp.__init__ on the same banco.db
Reiniciar ==
  /\ cuentas' = LoadAccountsFromDb(db)
  /\ UNCHANGED <<db, reloj>>

Next ==
  \/ AbrirCuenta
  \/ OpDeposito
  \/ OpRetiro
  \/ OpTransferencia
  \/ OpInteres
  \/ Reiniciar

Spec == Init /\ [][Next]_vars

(***************************************************************************)
(* Properties.  A method or a handler is a function of the state it is     *)
(* called in, so a property of every call is stated on the result of the   *)
(* call in every reachable state, for every entry the forms can hold.      *)
(***************************************************************************)
SinLeer(r) == <<r, r, r, r>>

Veinte == ParseMonto(20)

UltimoTipo(c) == c.historial[Len(c.historial)][2]

IsFinite(x) == ~IsNaN(x) /\ ~IsInf(x)

\* the entries of the amount field that float() accepts
MontosLeidos == {m \in MontosEntrada : m.k \in {"n", "e"}}

\* C1: the balance of every account of the registry is >= 0
C1_SaldoNoNegativo ==
  \A n \in DOMAIN cuentas : FGe(cuentas[n].saldo, FZero)

RechazadoSinCambio(c, res, exc) == res.exc = exc /\ res.c = c

\* C2: retirar(monto) with monto > saldo raises the insufficient-funds error
\* and leaves the account (balance and history) as it was
C2_RetiroInsuficiente ==
  \A n \in DOMAIN cuentas : \A m \in MontosLeidos :
    FGt(Float(m), cuentas[n].saldo)
      => RechazadoSinCambio(cuentas[n], Retirar(cuentas[n], Float(m), reloj),
                            "saldo insuficiente")

\* C2 witness: an account with records in its history and less than 0.20,
\* on which a withdrawal of 0.20 is rejected
C2_Witness ==
  \E n \in DOMAIN cuentas :
    /\ cuentas[n].historial # <<>>
    /\ FGt(Veinte, cuentas[n].saldo)
    /\ Retirar(cuentas[n], Veinte, reloj).exc = "saldo insuficiente"

\* amounts <= 0 handed to the methods: zero, which the entry can hold, and
\* -5.00, which only a direct call can pass
MontosNoPositivos == {ParseMonto(0), ParseMonto(-500)}

\* C3: depositar(monto) and retirar(monto) with monto <= 0, zero included,
\* raise the invalid-amount error and leave the account as it was
C3_MontoNoPositivo ==
  \A n \in DOMAIN cuentas : \A monto \in MontosNoPositivos :
    /\ RechazadoSinCambio(cuentas[n], Depositar(cuentas[n], monto, reloj),
                          "monto a depositar no positivo")
    /\ RechazadoSinCambio(cuentas[n], Retirar(cuentas[n], monto, reloj),
                          "monto a retirar no positivo")

\* C3 witness: an account with money and history on which a deposit of zero
\* and a withdrawal of zero are rejected
C3_Witness ==
  \E n \in DOMAIN cuentas :
    /\ cuentas[n].historial # <<>>
    /\ FGt(cuentas[n].saldo, FZero)
    /\ Depositar(cuentas[n], ParseMonto(0), reloj).exc = "monto a depositar no positivo"
    /\ Retirar(cuentas[n], ParseMonto(0), reloj).exc = "monto a retirar no positivo"

\* the text f"{monto:.2f}" of an accepted entry: its hundredths, -2 for inf
Centimos(m) == IF m.k = "e" THEN -2 ELSE m.c

\* the record _registrar_transaccion appends for the amount entered as m
Registro(fecha, tipo, signo, m) ==
  <<fecha, tipo, <<signo, [neg |-> FALSE, c |-> Centimos(m)]>>>>

ConservaSuma(o, d, tr) ==
  tr.exc = "" => FAdd(tr.o.saldo, tr.d.saldo) = FAdd(o.saldo, d.saldo)

RechazaDuplicado(res) ==
  /\ res.mensaje[1] = "Error al Crear Cuenta"
  /\ res.cuentas = cuentas
  /\ res.db = db

\* C5: opening an account under a numero the registry already holds is
\* rejected with a validation error, and leaves the registry (the existing
\* account included) and the database as they were
C5_DuplicadoRechazado ==
  \A form \in Formularios :
    form[1] \in DOMAIN cuentas =>
      RechazaDuplicado(CrearCuentaRes(cuentas, db, form[1], form[2], form[3], form[4]))

\* C5 witness: an account with history, and a form that is valid but for its
\* numero, which is that account's, filled with another titular
C5_Witness ==
  \E form \in FormulariosValidos :
    /\ form[1] \in DOMAIN cuentas
    /\ cuentas[form[1]].historial # <<>>
    /\ cuentas[form[1]].titular # form[2]
    /\ CrearCuentaRes(cuentas, db, form[1], form[2], form[3], form[4]).mensaje
         = <<"Error al Crear Cuenta", "esta cuenta ya existe">>

\* B + B * (tasa_anual / 12) in the arithmetic of the interpreter
UnDoceavoDe001 == FDivInt(FromDec(1, 100), 12)
UnDoceavoDe00005 == FDivInt(FromDec(5, 10000), 12)
ConInteres(clase, B) ==
  IF clase = "CuentaAhorro"
  THEN FAdd(B, FMul(B, UnDoceavoDe001))
  ELSE FAdd(B, FMul(B, UnDoceavoDe00005))

EtiquetaInteres(clase) ==
  IF clase = "CuentaAhorro" THEN <<"Interes (Ahorro)">> ELSE <<"Interes (Corriente)">>

UnInteresMas(c, c1, fecha) ==
  /\ c1.saldo = ConInteres(c.clase, c.saldo)
  /\ Len(c1.historial) = Len(c.historial) + 1
  /\ SubSeq(c1.historial, 1, Len(c.historial)) = c.historial
  /\ c1.historial[Len(c1.historial)][1] = fecha
  /\ c1.historial[Len(c1.historial)][2] = EtiquetaInteres(c.clase)
  /\ [c1 EXCEPT !.saldo = c.saldo, !.historial = c.historial] = c

InteresAplicado(n, f, res) ==
  /\ ~IsNaN(cuentas[n].saldo) => res.mensaje = <<"Interes Aplicado", "">>
  /\ DOMAIN res.cuentas = DOMAIN cuentas
  /\ \A k \in DOMAIN cuentas : k # n => res.cuentas[k] = cuentas[k]
  /\ UnInteresMas(cuentas[n], res.cuentas[n], f[1])
  /\ UnInteresMas(res.cuentas[n], AplicarInteres(res.cuentas[n], f[2]), f[2])

\* C6: applying interest to an account of balance B leaves B + B * (0.01 / 12)
\* on a savings account and B + B * (0.0005 / 12) on a checking account,
\* appends exactly one record, the interest record of the class, raises
\* nothing whatever B is, B = 0 included, and applied again compounds on the
\* balance the first call left
C6_InteresMensual ==
  \A n \in DOMAIN cuentas :
    InteresAplicado(n, SinLeer(reloj),
                    RealizarOperacionRes(cuentas, db, reloj, "Aplicar Interes",
                                         n, Vacio, "", SinLeer(reloj)))

EsInteres(h) == h[2] \in {<<"Interes (Ahorro)">>, <<"Interes (Corriente)">>}

\* C6 witness: interest has been applied to an account of balance 0, and
\* twice in a row to another account that holds money
C6_Witness ==
  \E n \in DOMAIN cuentas : \E k \in DOMAIN cuentas :
    /\ cuentas[n].saldo = FZero
    /\ cuentas[n].historial # <<>>
    /\ EsInteres(cuentas[n].historial[1])
    /\ FGt(cuentas[k].saldo, FZero)
    /\ IsFinite(cuentas[k].saldo)
    /\ Len(cuentas[k].historial) >= 2
    /\ EsInteres(cuentas[k].historial[1])
    /\ EsInteres(cuentas[k].historial[2])

DepositoYRetiro(c, m, dp, rt) ==
  /\ dp.exc = ""
  /\ rt.exc = ""
  /\ rt.c.saldo = c.saldo
  /\ rt.c.historial = c.historial \o <<Registro(reloj, <<"Deposito">>, "+", m),
                                       Registro(reloj, <<"Retiro">>, "-", m)>>

DepositoLuegoRetiro(c, m, dp) ==
  DepositoYRetiro(c, m, dp, Retirar(dp.c, Float(m), reloj))

\* C7: on every account, depositar(a) followed at once by retirar(a), a > 0,
\* succeeds in both steps, brings the balance back to what it was and
\* extends the history by a deposit record and then a withdrawal record
C7_DepositoRetiroRestaura ==
  \A n \in DOMAIN cuentas : \A c \in MontosPositivos :
    IsFinite(cuentas[n].saldo)
      => DepositoLuegoRetiro(cuentas[n], Num(c),
                             Depositar(cuentas[n], ParseMonto(c), reloj))

\* four readings of the clock that differ, to tell the four records apart
CuatroLecturas(r) == <<r, r + 1, r + 2, r + 3>>

CuatroRegistros(o, d, m, f, tr) ==
  tr.exc = "" =>
    /\ tr.o.historial = o.historial
         \o <<Registro(f[1], <<"Retiro">>, "-", m),
              Registro(f[3], <<"Transferencia a", d.numero>>, "-", m)>>
    /\ tr.d.historial = d.historial
         \o <<Registro(f[2], <<"Deposito">>, "+", m),
              Registro(f[4], <<"Transferencia de", o.numero>>, "+", m)>>

\* C8: a successful transfer of a appends two records to the origin, a
\* withdrawal and a transfer to the destination, both of -a, and two to the
\* destination, a deposit and a transfer from the origin, both of +a
C8_TransferenciaCuatroRegistros ==
  \A o \in DOMAIN cuentas : \A d \in DOMAIN cuentas : \A m \in MontosLeidos :
    o # d => CuatroRegistros(cuentas[o], cuentas[d], m, CuatroLecturas(reloj),
                             Transferir(cuentas[o], cuentas[d], Float(m),
                                        CuatroLecturas(reloj)))

\* C8 witness: the histories of two accounts end with the records of a
\* transfer of 0.20 from the one to the other
C8_Witness ==
  \E o \in DOMAIN cuentas : \E d \in DOMAIN cuentas :
    /\ Len(cuentas[o].historial) >= 2
    /\ Len(cuentas[d].historial) >= 2
    /\ cuentas[o].historial[Len(cuentas[o].historial) - 1][2] = <<"Retiro">>
    /\ UltimoTipo(cuentas[o]) = <<"Transferencia a", d>>
    /\ cuentas[d].historial[Len(cuentas[d].historial) - 1][2] = <<"Deposito">>
    /\ UltimoTipo(cuentas[d]) = <<"Transferencia de", o>>
    /\ cuentas[d].historial[Len(cuentas[d].historial)][3] = MontoStr("+", Veinte)

\* the states the methods can leave account n in before the next sync
EstadosDe(n) ==
  {cuentas[n], AplicarInteres(cuentas[n], reloj)}
  \cup {Depositar(cuentas[n], Float(m), reloj).c : m \in MontosLeidos}
  \cup {Retirar(cuentas[n], Float(m), reloj).c : m \in MontosLeidos}

IdaYVuelta(n, c, upd) ==
  /\ upd.exc = ""
  /\ DOMAIN LoadAccountsFromDb(upd.db) = DOMAIN cuentas
  /\ LoadAccountsFromDb(upd.db)[n] = c

\* C9: syncing an account to the database and loading the database again
\* gives an account of the same numero, titular, class and balance whose
\* history holds the same records in the same order
C9_IdaYVuelta ==
  \A n \in DOMAIN cuentas : \A c \in EstadosDe(n) :
    IdaYVuelta(n, c, UpdateAccountInDb(db, c))

\* a float that is the nearest one to a number of two decimals
EsCentimos(x) == ParseMonto(Fmt2(x).c) = x

\* C10: the balance of every account is a whole number of hundredths
C10_SaldoEnCentimos ==
  \A n \in DOMAIN cuentas : IsFinite(cuentas[n].saldo) => EsCentimos(cuentas[n].saldo)

EsPrefijo(a, b) == Len(a) <= Len(b) /\ SubSeq(b, 1, Len(a)) = a

\* a step of one of the two buttons, with any entries
Operacion == AbrirCuenta \/ OpDeposito \/ OpRetiro \/ OpTransferencia \/ OpInteres

\* every account keeps its place in the registry and its records, in memory
\* and in table historial, and new records come after them
HistorialCrece ==
  /\ \A n \in DOMAIN cuentas :
       /\ n \in DOMAIN cuentas'
       /\ EsPrefijo(cuentas[n].historial, cuentas'[n].historial)
  /\ \A n \in DOMAIN db.cuentas :
       EsPrefijo(SelectHistorial(db.historial, n), SelectHistorial(db'.historial, n))

\* C11: across every step of an operation (opening, deposit, withdrawal,
\* transfer, interest, accepted or rejected, with its sync to the database)
\* the history of each account before the step is a prefix of its history
\* after the step, in memory and in the database
C11_HistorialSoloCrece == [][HistorialCrece \/ ~Operacion]_vars

\* C11 witness: an account whose history has grown three times and has been
\* written to the database each time
C11_Witness ==
  \E n \in DOMAIN cuentas :
    /\ Len(cuentas[n].historial) >= 3
    /\ n \in DOMAIN db.cuentas
    /\ LoadAccountsFromDb(db)[n].historial = cuentas[n].historial

\* the titles of the message boxes that end a handler nothing has failed in
Exitos ==
  {"Exito", "Deposito Exitoso", "Retiro Exitoso", "Transferencia Exitosa",
   "Interes Aplicado"}

\* the database holds the registry: loading it gives the accounts of cs
Espejo(cs, d) == LoadAccountsFromDb(d) = cs

\* the database holds account n of cs, balance and history
EspejoDe(cs, d, n) ==
  /\ n \in DOMAIN d.cuentas
  /\ LoadAccountsFromDb(d)[n] = cs[n]

\* res is what a handler left after touching the accounts ns; espejo tells
\* whether the database held the whole registry before the handler ran
Sincronizado(res, ns, espejo) ==
  res.mensaje[1] \in Exitos =>
    /\ \A n \in ns : EspejoDe(res.cuentas, res.db, n)
    /\ espejo => Espejo(res.cuentas, res.db)

SincronizadoTodo(espejo) ==
  /\ \A form \in Formularios :
       Sincronizado(CrearCuentaRes(cuentas, db, form[1], form[2], form[3], form[4]),
                    {form[1]}, espejo)
  /\ \A n \in DOMAIN cuentas : \A m \in MontosLeidos :
       \A tipo \in {"Deposito", "Retiro"} :
         Sincronizado(RealizarOperacionRes(cuentas, db, reloj, tipo, n, m, "",
                                           SinLeer(reloj)), {n}, espejo)
  /\ \A n \in DOMAIN cuentas :
       Sincronizado(RealizarOperacionRes(cuentas, db, reloj, "Aplicar Interes", n,
                                         Vacio, "", SinLeer(reloj)), {n}, espejo)
  /\ \A o \in DOMAIN cuentas : \A d \in DOMAIN cuentas : \A m \in MontosLeidos :
       Sincronizado(RealizarOperacionRes(cuentas, db, reloj, "Transferencia", o, m, d,
                                         SinLeer(reloj)), {o, d}, espejo)

\* C12: when an operation of the window (opening, deposit, withdrawal,
\* transfer, interest) ends with its success message, the database holds the
\* balance and the history of every account the operation touched, origin and
\* destination for a transfer, and if the database held the whole registry
\* before the operation it holds the whole registry after it
C12_BaseReflejaRegistro ==
  IF Espejo(cuentas, db) THEN SincronizadoTodo(TRUE) ELSE SincronizadoTodo(FALSE)

\* C12 witness: after a transfer the database holds the origin and the
\* destination as they are in memory, and with them the whole registry
C12_Witness ==
  \E o \in DOMAIN cuentas : \E d \in DOMAIN cuentas :
    /\ Len(cuentas[o].historial) >= 2
    /\ UltimoTipo(cuentas[o]) = <<"Transferencia a", d>>
    /\ Len(cuentas[d].historial) >= 2
    /\ UltimoTipo(cuentas[d]) = <<"Transferencia de", o>>
    /\ IsFinite(cuentas[o].saldo)
    /\ EspejoDe(cuentas, db, o)
    /\ EspejoDe(cuentas, db, d)
    /\ Espejo(cuentas, db)

\* the reasons a transfer request is turned down for: an account that is not
\* in the registry, the origin as destination, no amount or one that is not
\* a number, an amount <= 0, an amount above the balance of the origin
SeRechaza(numero, destino, m) ==
  \/ numero \notin DOMAIN cuentas
  \/ destino \notin DOMAIN cuentas
  \/ numero = destino
  \/ m \notin MontosLeidos
  \/ FLe(Float(m), FZero)
  \/ FGt(Float(m), cuentas[numero].saldo)

Rechazada(res) ==
  /\ res.mensaje[1] = "Error en Transferencia"
  /\ res.cuentas = cuentas
  /\ res.db = db

\* account n of res is account n of the registry with monto taken from
\* (signo "-") or added to (signo "+") its balance and two records more
Movida(res, n, signo, monto) ==
  /\ res.cuentas[n].saldo = (IF signo = "-" THEN FSub(cuentas[n].saldo, monto)
                             ELSE FAdd(cuentas[n].saldo, monto))
  /\ Len(res.cuentas[n].historial) = Len(cuentas[n].historial) + 2
  /\ EsPrefijo(cuentas[n].historial, res.cuentas[n].historial)
  /\ res.cuentas[n].historial[Len(res.cuentas[n].historial)][3] = MontoStr(signo, monto)

Completa(res, numero, destino, monto) ==
  /\ DOMAIN res.cuentas = DOMAIN cuentas
  /\ \A n \in DOMAIN cuentas \ {numero, destino} : res.cuentas[n] = cuentas[n]
  /\ Movida(res, numero, "-", monto)
  /\ Movida(res, destino, "+", monto)

TodoONada(numero, destino, m, res) ==
  IF SeRechaza(numero, destino, m) THEN Rechazada(res)
  ELSE Completa(res, numero, destino, Float(m))

\* C13: a transfer request that is turned down (amount <= 0, amount above
\* the balance of the origin, origin or destination not in the registry,
\* destination equal to origin) leaves every account and the database as
\* they were, and every other request debits the origin and credits the
\* destination: no request leaves the origin debited and the destination
\* not credited
C13_TransferenciaTodoONada ==
  \A numero \in NumerosEntrada : \A destino \in NumerosEntrada :
    \A m \in MontosEntrada :
      TodoONada(numero, destino, m,
                RealizarOperacionRes(cuentas, db, reloj, "Transferencia", numero, m,
                                     destino, CuatroLecturas(reloj)))

\* C13 witness: two accounts with history, of which one cannot pay 0.20 to
\* the other and is turned down, and the other can and does
C13_Witness ==
  \E o \in DOMAIN cuentas : \E d \in DOMAIN cuentas :
    /\ o # d
    /\ cuentas[o].historial # <<>>
    /\ cuentas[d].historial # <<>>
    /\ FGt(Veinte, cuentas[o].saldo)
    /\ RealizarOperacionRes(cuentas, db, reloj, "Transferencia", o, Num(20), d,
                            CuatroLecturas(reloj)).mensaje
         = <<"Error en Transferencia", "saldo insuficiente">>
    /\ RealizarOperacionRes(cuentas, db, reloj, "Transferencia", d, Num(20), o,
                            CuatroLecturas(reloj)).mensaje[1] = "Transferencia Exitosa"

====
